---- MODULE Spec2Model ----
(***************************************************************************)
(* cmdrnafold: a wrapper around the ViennaRNA RNAFold command line tool.   *)
(* The model follows src/src/cmdrnafold/RNA.py: the constructor of         *)
(* RNArunner, the coroutine RNArunner.mfe with its helper _ensure_process  *)
(* (one action per stretch of code between two suspension points), the     *)
(* blocking wrapper SyncRNArunner.mfe, and the subprocess as environment.  *)
(*                                                                         *)
(* Strings are sequences of one-character strings.  Two phrases of the     *)
(* tool's report, "minimum free energy" and "kcal/mol", are single tokens  *)
(* (MFE, KCAL): no other character of the alphabet used here occurs in     *)
(* them, so substring search and split on them are search and split on the *)
(* token.  Energies are kept in hundredths (float("-4.20") is -420).       *)
(***************************************************************************)
EXTENDS Integers, Sequences, FiniteSets, TLC

VARIABLES
    arg,      \* arg[r]: the value handed to the constructor of runner r
    made,     \* made[r]: how that constructor call ended
    runner,   \* runner[r]: the fields of RNArunner object r
    task,     \* task[t]: fold call t (one call of mfe), its locals and history
    procs,    \* procs[p]: the subprocess started by fold call p
    loop      \* whether the calling thread has a current event loop

vars == <<arg, made, runner, task, procs, loop>>

\* ------------------------------------------------------------------ bounds
MaxSeqLen == 2      \* longest constructor argument tried
MaxLines == 3       \* most "\n"-separated pieces of a subprocess's stdout
MaxTasks == 2       \* fold calls in one run

Runners == {1, 2}   \* runner 1: a plain RNArunner; runner 2: SyncRNArunner._runner
Tasks == 1..MaxTasks
None == 0           \* Python's None for RNArunner._proc and for the local proc

\* ------------------------------------------------------------- characters
Nucleotides == {"A", "U", "G", "C"}       \* valid_nucleotides = set("AUGC")
Lower == {"a", "u", "g", "c"}
\* what else a caller may pass: another letter, the tool's sentinel, newline,
\* blank, a shell metacharacter, a control character (U+0000), non-ASCII (U+03B1)
Foreign == {"X", "@", "\n", " ", ";", "NUL", "alpha"}
InChars == Nucleotides \cup Lower \cup Foreign

\* str.upper() of one character
Upper(c) ==
    CASE c = "a" -> "A"
      [] c = "u" -> "U"
      [] c = "g" -> "G"
      [] c = "c" -> "C"
      [] c = "alpha" -> "ALPHA"
      [] OTHER -> c

\* str.upper() of a string
UpperStr(s) == [i \in 1..Len(s) |-> Upper(s[i])]

SeqsUpTo(S, n) == UNION {[1..k -> S] : k \in 0..n}

\* ---------------------------------------------------------------- outcomes
NoCall == [exc |-> "pending", msg |-> "", code |-> -1, text |-> "",
           structure |-> <<>>, mfe |-> 0]
Returned(s, e) == [exc |-> "none", msg |-> "", code |-> -1, text |-> "",
                   structure |-> s, mfe |-> e]
Raised(m, c, t) == [exc |-> "RNAFoldError", msg |-> m, code |-> c, text |-> t,
                    structure |-> <<>>, mfe |-> 0]
Escaped(e) == [exc |-> e, msg |-> "", code |-> -1, text |-> "",
               structure |-> <<>>, mfe |-> 0]

\* The error kinds of the specification, told apart by the message the code
\* raises RNAFoldError with (the code has the one exception class).
KindOf(o) ==
    CASE o.exc = "pending" -> "Pending"
      [] o.exc = "none" -> "Result"
      [] o.exc = "RNAFoldError" /\ o.msg \in {"Sequence must be a non-empty string",
             "Invalid nucleotides in sequence. Only A, U, G, C allowed."}
           -> "InvalidSequence"
      [] o.exc = "RNAFoldError" /\ o.msg = "Failed to start RNAFold process"
           -> "ProcessStartFailure"
      [] o.exc = "RNAFoldError" /\ o.msg = "RNAFold failed with return code"
           -> "ProcessError"
      [] o.exc = "RNAFoldError" /\ o.msg \in {"Unexpected RNAFold output format",
             "Could not parse structure from output"}
           -> "MalformedOutput"
      [] o.exc = "RNAFoldError" /\ o.msg = "Could not parse MFE from"
           -> "EnergyParseError"
      [] OTHER -> "OutsideFamily"

\* ------------------------------------------------------------- constructor
\* Constructor arguments: Python values with their type, their truth value and,
\* for a str, their characters.
StrArg(s) == [type |-> "str", truthy |-> s # <<>>, chars |-> s]
NonStrArgs == {[type |-> "NoneType", truthy |-> FALSE, chars |-> <<>>],
               [type |-> "int", truthy |-> FALSE, chars |-> <<>>],
               [type |-> "int", truthy |-> TRUE, chars |-> <<>>],
               [type |-> "bytes", truthy |-> TRUE, chars |-> <<"A", "U">>]}
CtorArgs == {StrArg(s) : s \in SeqsUpTo(InChars, MaxSeqLen)} \cup NonStrArgs
NoArg == [type |-> "unset", truthy |-> FALSE, chars |-> <<>>]

Cmd == "RNAFold --noPS"

NoRunner == [live |-> FALSE, sequence |-> <<>>, cmd |-> "", hash |-> 0, proc |-> None]

\* str.encode() of the characters a sequence and the control string have
Ord(c) ==
    CASE c = "A" -> 65 [] c = "C" -> 67 [] c = "G" -> 71 [] c = "U" -> 85
      [] c = "a" -> 97 [] c = "c" -> 99 [] c = "g" -> 103 [] c = "u" -> 117
      [] c = "@" -> 64 [] c = "\n" -> 10

\* hash(self.cmd + self.sequence): a function of the characters of the
\* concatenation, into the integers of a hash   (RNA.py 52)
RECURSIVE StrHash(_, _)
StrHash(h, str) ==
    IF str = <<>> THEN h ELSE StrHash((h * 31 + Ord(str[1])) % 65536, Tail(str))

Hash(cmd, seq) == StrHash(IF cmd = Cmd THEN 1 ELSE 0, seq)

\* not sequence or not isinstance(sequence, str)
RejectsArg(a) == ~a.truthy \/ a.type # "str"

\* all(c.upper() in valid_nucleotides for c in sequence)
MutFirstCharOnly(s) == Len(s) = 0 \/ Upper(s[1]) \in Nucleotides
AllValid(s) == \A i \in 1..Len(s) : Upper(s[i]) \in Nucleotides

\* self.sequence = sequence.upper()
MutKeepCase(s) == s
Canonical(s) == UpperStr(s)

\* RNArunner.__init__: the outcome of the call and the object it leaves
RNArunnerInit(a) ==
    IF RejectsArg(a)
      THEN [outcome |-> Raised("Sequence must be a non-empty string", -1, ""),
            self |-> NoRunner]
    ELSE IF ~AllValid(a.chars)
      THEN [outcome |-> Raised("Invalid nucleotides in sequence. Only A, U, G, C allowed.", -1, ""),
            self |-> NoRunner]
    ELSE [outcome |-> Returned(<<>>, 0),
          self |-> [live |-> TRUE, sequence |-> Canonical(a.chars),
                    cmd |-> Cmd, hash |-> Hash(Cmd, Canonical(a.chars)), proc |-> None]]

\* __hash__ of an RNArunner (RNA.py 151-153) and of a SyncRNArunner, which
\* hashes its runner (RNA.py 197-198)
HashOf(self) == self.hash

\* a == b: neither class defines __eq__, so objects are compared by identity
EqualObjects(r, s) == r = s

\* ------------------------------------------------------------------- text
MFE == "minimum free energy"
KCAL == "kcal/mol"
Digits == {"0", "1", "2", "3", "4", "5", "6", "7", "8", "9"}
Space == {" "}

Min(S) == CHOOSE x \in S : \A y \in S : x <= y
Max(S) == CHOOSE x \in S : \A y \in S : x >= y
Range(s) == {s[i] : i \in 1..Len(s)}

\* str.lstrip(), str.rstrip(), str.strip()
LStrip(s) ==
    LET keep == {i \in 1..Len(s) : s[i] \notin Space}
    IN  IF keep = {} THEN <<>> ELSE SubSeq(s, Min(keep), Len(s))
RStrip(s) ==
    LET keep == {i \in 1..Len(s) : s[i] \notin Space}
    IN  IF keep = {} THEN <<>> ELSE SubSeq(s, 1, Max(keep))
Strip(s) == LStrip(RStrip(s))

\* A text is kept as its "\n"-separated pieces: <<p1, ..., pn>> is the text
\* p1 "\n" p2 "\n" ... pn (a text ending in "\n" has an empty last piece).
\* text.strip().split('\n'): newlines are whitespace, so the blank pieces at
\* both ends go, and the first and last pieces left lose their outer blanks.
StripSplit(pieces) ==
    LET keep == {i \in 1..Len(pieces) : Strip(pieces[i]) # <<>>}
    IN  IF keep = {} THEN << <<>> >>
        ELSE LET lo == Min(keep)
                 hi == Max(keep)
             IN  [i \in 1..(hi - lo + 1) |->
                    LET p == pieces[lo + i - 1]
                        q == IF i = 1 THEN LStrip(p) ELSE p
                    IN  IF i = hi - lo + 1 THEN RStrip(q) ELSE q]

\* line.strip() and set(line.strip()) <= set('().')
MutAnyInk(line) == Strip(line) # <<>>
IsStructureLine(line) ==
    Strip(line) # <<>> /\ Range(Strip(line)) \subseteq {"(", ")", "."}

\* for i, line in enumerate(result_lines): ... break   (RNA.py 108-116)
\* energy is <<the stripped following line>>, or <<>> while energy_line is None
RECURSIVE ScanFrom(_, _)
ScanFrom(lines, i) ==
    IF i > Len(lines)
      THEN [structure |-> <<>>, energy |-> <<>>]
    ELSE IF IsStructureLine(lines[i])
      THEN [structure |-> Strip(lines[i]),
            energy |-> IF i + 1 <= Len(lines) THEN <<Strip(lines[i + 1])>> ELSE <<>>]
    ELSE ScanFrom(lines, i + 1)

MutSecondLineOnly(lines) ==
    IF Len(lines) >= 2 /\ IsStructureLine(lines[2])
      THEN [structure |-> Strip(lines[2]),
            energy |-> IF 3 <= Len(lines) THEN <<Strip(lines[3])>> ELSE <<>>]
      ELSE [structure |-> <<>>, energy |-> <<>>]
FindStructure(lines) == ScanFrom(lines, 1)

\* ------------------------------------------------------------------ float
DigitVal(d) ==
    CASE d = "0" -> 0 [] d = "1" -> 1 [] d = "2" -> 2 [] d = "3" -> 3
      [] d = "4" -> 4 [] d = "5" -> 5 [] d = "6" -> 6 [] d = "7" -> 7
      [] d = "8" -> 8 [] d = "9" -> 9

RECURSIVE IntVal(_)
IntVal(ds) ==
    IF ds = <<>> THEN 0
    ELSE IntVal(SubSeq(ds, 1, Len(ds) - 1)) * 10 + DigitVal(ds[Len(ds)])

\* the first two decimals of a fraction, in hundredths
Hundredths(fs) ==
    (IF Len(fs) >= 1 THEN DigitVal(fs[1]) * 10 ELSE 0)
    + (IF Len(fs) >= 2 THEN DigitVal(fs[2]) ELSE 0)

Fails == [ok |-> FALSE, val |-> 0]

\* float(s) on the alphabet used here: blanks around, an optional sign, digits
\* with at most one point and at least one digit.  (inf, nan, exponents and
\* underscores need characters no line of StdoutLines has.)
Float(s) ==
    LET t == Strip(s)
        signed == t # <<>> /\ t[1] \in {"-", "+"}
        body == IF signed THEN Tail(t) ELSE t
        dots == {i \in 1..Len(body) : body[i] = "."}
        wellFormed == /\ body # <<>>
                      /\ Range(body) \subseteq Digits \cup {"."}
                      /\ Cardinality(dots) <= 1
                      /\ Range(body) \cap Digits # {}
        whole == IF dots = {} THEN body ELSE SubSeq(body, 1, Min(dots) - 1)
        frac == IF dots = {} THEN <<>> ELSE SubSeq(body, Min(dots) + 1, Len(body))
        mag == IntVal(whole) * 100 + Hundredths(frac)
    IN  IF ~wellFormed THEN Fails
        ELSE [ok |-> TRUE, val |-> IF signed /\ t[1] = "-" THEN 0 - mag ELSE mag]

\* s.split(sep)[0]
Before(s, sep) ==
    LET at == {i \in 1..Len(s) : s[i] = sep}
    IN  IF at = {} THEN s ELSE SubSeq(s, 1, Min(at) - 1)

\* energy_line.split("=")[1].split("kcal/mol")[0].strip()   (RNA.py 125)
\* split("=") has no element [1] without an "=": IndexError
MfePattern(e) ==
    LET eqs == {i \in 1..Len(e) : e[i] = "="}
    IN  IF eqs = {} THEN Fails
        ELSE Float(Strip(Before(Before(SubSeq(e, Min(eqs) + 1, Len(e)), "="), KCAL)))

\* energy_line[1:-1].strip()   (RNA.py 127)
Parenthesized(e) == Float(Strip(SubSeq(e, 2, Len(e) - 1)))

\* the end of the run of digits that starts at i (i - 1 when there is none)
DigitRun(e, i) == Max({j \in (i - 1)..Len(e) : \A k \in i..j : e[k] \in Digits})

\* re.search(r'(-?\d+\.?\d*)', energy_line)   (RNA.py 131-135)
FirstNumber(e) ==
    LET starts == {i \in 1..Len(e) :
                      \/ e[i] \in Digits
                      \/ e[i] = "-" /\ i < Len(e) /\ e[i + 1] \in Digits}
    IN  IF starts = {} THEN Fails
        ELSE LET a == Min(starts)
                 d == IF e[a] = "-" THEN a + 1 ELSE a
                 j == DigitRun(e, d)
                 k == IF j < Len(e) /\ e[j + 1] = "." THEN DigitRun(e, j + 2) ELSE j
             IN  Float(SubSeq(e, a, k))

IsMfeLine(e) == MFE \in Range(e)
IsParenLine(e) == e # <<>> /\ e[1] = "(" /\ e[Len(e)] = ")"

\* the if / elif / else of RNA.py 124-137 on the stripped energy line
ParseEnergy(e) ==
    IF IsMfeLine(e) THEN MfePattern(e)
    ELSE IF IsParenLine(e) THEN Parenthesized(e)
    ELSE FirstNumber(e)

\* ----------------------------------------------------- subprocess output
\* The lines a subprocess may print: the examples of the tests and of the
\* comment at RNA.py 122, and one line for each way the parser can go.
LineEcho == <<"C", "G", "C", "A", "G", "G", "G", "A", "U", "A", "C", "C", "C", "G", "C", "G">>    \* the tool echoes the sequence
LineStructure == <<"(", "(", "(", "(", ".", ".", ".", ".", ")", ")", ")", ")">>    \* a structure line
LinePadded == <<" ", "(", ".", ")", " ">>    \* a structure line with blanks around it
LineParen == <<"(", " ", "-", "4", ".", "2", "0", ")">>    \* the energy as the tool prints it after the structure
LineMfe == <<" ", MFE, " ", "=", " ", " ", "-", "9", ".", "8", "0", " ", KCAL>>    \* the energy as the tool's verbose report prints it
LineMfeNoEq == <<MFE, ":", " ", "-", "9", ".", "8", "0">>    \* the phrase without an equals sign
LineParenUnits == <<"(", " ", "-", "1", ".", "5", "0", " ", KCAL, ")">>    \* parenthesized, with the unit inside
LineLoose == <<"x", " ", "2", ".", "5">>    \* a number after a label
LineWords == <<"x">>    \* no number at all
LineEmpty == <<>>    \* an empty piece (a blank line, or the end of a text ending in a newline)
StdoutLines == {LineEcho, LineStructure, LinePadded, LineParen, LineMfe, LineMfeNoEq, LineParenUnits, LineLoose, LineWords, LineEmpty}

\* bytes on a pipe: whether they are valid UTF-8, whether there are any, and
\* their text (pieces for stdout, one opaque string for stderr)
OutBytes(pieces) == [valid |-> TRUE, some |-> pieces # << <<>> >>, text |-> pieces]
OutGarbled == [valid |-> FALSE, some |-> TRUE, text |-> << <<>> >>]
OutNothing == OutBytes(<< <<>> >>)
ErrBytes(str) == [valid |-> TRUE, some |-> str # "", text |-> str]
ErrGarbled == [valid |-> FALSE, some |-> TRUE, text |-> ""]
ErrNothing == ErrBytes("")

\* the outputs of the tests, one that has no structure line, one whose energy
\* line has no number, and bytes that are not UTF-8
FewOutputs == {OutBytes(<<LineEcho, LineStructure, LineParen, LineEmpty>>),
               OutBytes(<<LineWords>>),
               OutBytes(<<LineEcho, LineStructure, LineWords>>),
               OutGarbled}
AllOutputs == {OutBytes(ps) : ps \in UNION {[1..k -> StdoutLines] : k \in 1..MaxLines}}
                \cup FewOutputs
Stderrs == {ErrNothing, ErrBytes("Error message"), ErrGarbled}

\* what the shell of create_subprocess_shell leaves when it finds no RNAFold
\* executable: its message on stderr, and exit status 127
NotFound == 127
NotFoundRead == [out |-> OutNothing, err |-> ErrBytes("/bin/sh: 1: RNAFold: not found")]

\* what one communicate() may read: everything, and a few cases of each kind
Read(out, err) == [out |-> out, err |-> err]
AllReads == {Read(out, err) : out \in AllOutputs, err \in Stderrs}
FewReads == {Read(OutBytes(<<LineEcho, LineStructure, LineParen, LineEmpty>>), ErrNothing),
             Read(OutBytes(<<LineWords>>), ErrBytes("Error message")),
             Read(OutBytes(<<LineEcho, LineStructure, LineWords>>), ErrGarbled),
             Read(OutGarbled, ErrNothing)}
ExitCodes == {0, 1}
SIGTERM == 0 - 15       \* the return code of a process ended by terminate()

\* ------------------------------------------------------ the tail of mfe()
\* error_msg = stderr.decode() if stderr else "Unknown error"; raise   (97-99)
ProcessFailed(rc, err) ==
    IF ~err.some THEN Raised("RNAFold failed with return code", rc, "Unknown error")
    ELSE IF ~err.valid THEN Escaped("UnicodeDecodeError")
    ELSE Raised("RNAFold failed with return code", rc, err.text)

\* len(result_lines) < 3   (104)
MutTwoLinesEnough(lines) == Len(lines) < 2
TooFewLines(lines) == Len(lines) < 3

\* RNA.py 102-142: stdout of a process that returned 0
ParseOutput(out) ==
    IF ~out.valid THEN Escaped("UnicodeDecodeError")
    ELSE LET lines == StripSplit(out.text)
             found == FindStructure(lines)
         IN  IF TooFewLines(lines)
               THEN Raised("Unexpected RNAFold output format", -1, "")
             ELSE IF found.structure = <<>> \/ found.energy = <<>> \/ found.energy[1] = <<>>
               THEN Raised("Could not parse structure from output", -1, "")
             ELSE LET e == ParseEnergy(found.energy[1])
                  IN  IF e.ok THEN Returned(found.structure, e.val)
                      ELSE Raised("Could not parse MFE from", -1, "")

\* RNA.py 97-142: what mfe() does with what communicate() returned
MfeTail(rc, out, err) ==
    IF rc # 0 THEN ProcessFailed(rc, err) ELSE ParseOutput(out)

\* loop.run_until_complete(self._runner.mfe()): the coroutine's result, or
\* the exception it raised   (RNA.py 195)
MutSwallowErrors(o) == IF o.exc = "none" THEN o ELSE Returned(<<>>, 0)
RunUntilComplete(o) == o

\* --------------------------------------------------------- stdin protocol
\* str.encode() of the control string
Encode(s) == [i \in 1..Len(s) |-> Ord(s[i])]

\* control = f"{self.sequence}\n@\n"   (RNA.py 70)
Control(seq) == seq \o <<"\n", "@", "\n">>

\* ------------------------------------------------------------------ state
Event(op, p, data) == [op |-> op, p |-> p, data |-> data]

IdleTask == [pc |-> "idle", mode |-> "none", r |-> 0, proc |-> None, spawns |-> 0,
             trace |-> <<>>, rc |-> -1, out |-> OutNothing, err |-> ErrNothing,
             pending |-> NoCall, outcome |-> NoCall]

NoProc == [status |-> "none", cmd |-> "", code |-> -1, stdin |-> "open",
           written |-> <<>>, reader |-> 0, eof |-> FALSE, killed |-> FALSE,
           missing |-> FALSE]

\* the arguments the runners of a fold run are constructed from
FoldArgs == {StrArg(<<"A", "u">>), StrArg(<<"g">>)}
ExampleArg == StrArg(LineEcho)

Constructed(args) ==
    /\ arg = args
    /\ made = [r \in Runners |-> RNArunnerInit(args[r]).outcome]
    /\ runner = [r \in Runners |-> RNArunnerInit(args[r]).self]
    /\ task = [t \in Tasks |-> IdleTask]
    /\ procs = [t \in Tasks |-> NoProc]

\* a call of mfe() has ended with o; a blocking call hands o through
\* run_until_complete
Finish(tk, o) ==
    [tk EXCEPT !.pc = "done",
               !.outcome = IF tk.mode = "sync" THEN RunUntilComplete(o) ELSE o]

\* finally: if proc.returncode is None: proc.terminate(); await proc.wait()
\* (RNA.py 146-149), o being what the try block returned or raised
Unwind(t, tk, prs, o) ==
    IF prs[tk.proc].status = "running"
      THEN /\ task' = [task EXCEPT ![t] = [tk EXCEPT !.pc = "waiting", !.pending = o]]
           /\ procs' = [prs EXCEPT ![tk.proc].killed = TRUE]
      ELSE /\ task' = [task EXCEPT ![t] = Finish(tk, o)]
           /\ procs' = prs

\* stdout, stderr = await proc.communicate()   (RNA.py 95), tk.proc being the
\* process _ensure_process returned.  A StreamReader lets one coroutine wait
\* for data: while another call is reading the streams of a running process,
\* read() raises RuntimeError in this one.
BeginCommunicate(t, tk, prs) ==
    IF prs[tk.proc].status = "running" /\ prs[tk.proc].reader \notin {0, t}
      THEN Unwind(t, [tk EXCEPT !.trace = Append(@, Event("read-refused", tk.proc, <<>>))],
                  prs, Escaped("RuntimeError"))
      ELSE /\ task' = [task EXCEPT ![t] = [tk EXCEPT !.pc = "communicating"]]
           /\ procs' = [prs EXCEPT ![tk.proc].reader =
                           IF prs[tk.proc].reader = 0 THEN t ELSE prs[tk.proc].reader]

\* ---------------------------------------------------------------- actions
\* RNArunner(sequence) / fold_compound(sequence) / SyncRNArunner(sequence)
Construct(r, a) ==
    /\ arg[r] = NoArg
    /\ arg' = [arg EXCEPT ![r] = a]
    /\ made' = [made EXCEPT ![r] = RNArunnerInit(a).outcome]
    /\ runner' = [runner EXCEPT ![r] = RNArunnerInit(a).self]
    /\ UNCHANGED <<task, procs, loop>>

\* mfe() is called on runner r: through SyncRNArunner.mfe (RNA.py 187-195) for
\* runner 2, by a coroutine for runner 1.  _ensure_process finds self._proc
\* None and calls create_subprocess_shell, or returns the process it finds.
\* Fold calls are numbered in the order they are made; a blocking call is made
\* by synchronous code, one at a time.
Call(t, r) ==
    /\ task[t].pc = "idle"
    /\ \A u \in Tasks : u < t => task[u].pc # "idle"
    /\ runner[r].live
    /\ r = 2 => \A u \in Tasks : task[u].mode = "sync" => task[u].pc = "done"
    /\ loop' = IF r = 2 THEN "set" ELSE loop
    /\ LET tk == [task[t] EXCEPT !.mode = IF r = 2 THEN "sync" ELSE "async", !.r = r]
       IN  IF runner[r].proc = None
             THEN /\ task' = [task EXCEPT ![t] = [tk EXCEPT !.pc = "spawning", !.spawns = 1]]
                  /\ procs' = procs
             ELSE BeginCommunicate(t, [tk EXCEPT !.proc = runner[r].proc], procs)
    /\ UNCHANGED <<arg, made, runner>>

\* create_subprocess_shell returns: self._proc is set, the control string is
\* written to its stdin, drain() is awaited   (RNA.py 59-72)
SpawnOk(t) ==
    /\ task[t].pc = "spawning"
    /\ LET r == task[t].r
           data == Encode(Control(runner[r].sequence))
       IN  /\ runner' = [runner EXCEPT ![r].proc = t]
           /\ procs' = [procs EXCEPT ![t] = [NoProc EXCEPT !.status = "running",
                                                          !.cmd = runner[r].cmd,
                                                          !.written = data]]
           /\ task' = [task EXCEPT ![t].pc = "draining",
                                   ![t].trace = <<Event("spawn", t, <<>>),
                                                  Event("write", t, data)>>]
    /\ UNCHANGED <<arg, made, loop>>

\* create_subprocess_shell raises OSError: RNAFoldError   (RNA.py 75-76)
SpawnFail(t) ==
    /\ task[t].pc = "spawning"
    /\ task' = [task EXCEPT ![t] =
                   Finish([task[t] EXCEPT !.trace = Append(@, Event("spawn-failed", None, <<>>))],
                          Raised("Failed to start RNAFold process", -1, ""))]
    /\ UNCHANGED <<arg, made, runner, procs, loop>>

\* drain() returns: self._proc.stdin.close(); return self._proc   (RNA.py 73-78)
\* and mfe() goes on to communicate().  self._proc is read again here.
DrainOk(t) ==
    /\ task[t].pc = "draining"
    /\ LET p == runner[task[t].r].proc
           tk == [task[t] EXCEPT !.proc = p,
                                 !.trace = Append(@, Event("close", p, <<>>))]
       IN  BeginCommunicate(t, tk, [procs EXCEPT ![p].stdin = "closed"])
    /\ UNCHANGED <<arg, made, runner, loop>>

\* drain() raises BrokenPipeError or ConnectionResetError, the subprocess
\* having closed its end of the pipe: RNAFoldError, raised before mfe() has
\* entered its try block   (RNA.py 75-76, 92)
DrainFail(t) ==
    /\ task[t].pc = "draining"
    /\ task' = [task EXCEPT ![t] =
                   Finish([task[t] EXCEPT !.trace = Append(@, Event("drain-failed", t, <<>>))],
                          Raised("Failed to start RNAFold process", -1, ""))]
    /\ UNCHANGED <<arg, made, runner, procs, loop>>

\* communicate() returns once the process has exited, with what is left to
\* read of its output; the rest of mfe() runs without suspending   (RNA.py 95-149)
CommunicateReturn(t, reads) ==
    /\ task[t].pc = "communicating"
    /\ LET p == task[t].proc
       IN  /\ procs[p].status = "exited"
           /\ \E rd \in (IF procs[p].eof THEN {Read(OutNothing, ErrNothing)}
                         ELSE IF procs[p].missing THEN {NotFoundRead}
                         ELSE reads) :
                 Unwind(t,
                        [task[t] EXCEPT !.rc = procs[p].code, !.out = rd.out, !.err = rd.err,
                                        !.trace = Append(@, Event("read", p, <<>>))],
                        [procs EXCEPT ![p].eof = TRUE,
                                      ![p].reader = IF @ = t THEN 0 ELSE @],
                        MfeTail(procs[p].code, rd.out, rd.err))
    /\ UNCHANGED <<arg, made, runner, loop>>

\* await proc.wait() of the finally block returns   (RNA.py 149)
WaitReturn(t) ==
    /\ task[t].pc = "waiting"
    /\ procs[task[t].proc].status = "exited"
    /\ task' = [task EXCEPT ![t] = Finish(task[t], task[t].pending)]
    /\ UNCHANGED <<arg, made, runner, procs, loop>>

\* the environment: a running subprocess exits, with SIGTERM's code when
\* terminate() was called on it
ProcExit(p) ==
    /\ procs[p].status = "running"
    /\ \E c \in (IF procs[p].killed THEN {SIGTERM} ELSE ExitCodes) :
          procs' = [procs EXCEPT ![p].status = "exited", ![p].code = c]
    /\ UNCHANGED <<arg, made, runner, task, loop>>

\* the environment: no RNAFold executable is installed.  The command is run
\* through a shell (RNA.py 59-60), which starts, reports that it found no
\* such command and exits
CommandNotFound(p) ==
    /\ procs[p].status = "running"
    /\ ~procs[p].killed
    /\ procs' = [procs EXCEPT ![p].status = "exited", ![p].code = NotFound,
                              ![p].missing = TRUE]
    /\ UNCHANGED <<arg, made, runner, task, loop>>

\* the caller abandons a non-blocking call (task.cancel(), or the timeout of
\* asyncio.wait_for): CancelledError is raised at the await the call is
\* suspended in.  In _ensure_process (RNA.py 59, 72) it passes the except
\* clause of RNA.py 75 and leaves mfe() before its try block; in communicate()
\* (RNA.py 95) the finally block runs; in the wait() of the finally block
\* (RNA.py 149) it ends the call.
Cancel(t) ==
    /\ task[t].mode = "async"
    /\ task[t].pc \in {"spawning", "draining", "communicating", "waiting"}
    /\ LET tk == [task[t] EXCEPT !.trace = Append(@, Event("cancelled", task[t].proc, <<>>))]
           gone == Escaped("CancelledError")
       IN  IF task[t].pc = "communicating"
             THEN Unwind(t, tk,
                         [procs EXCEPT ![tk.proc].reader = IF @ = t THEN 0 ELSE @],
                         gone)
             ELSE /\ task' = [task EXCEPT ![t] = Finish(tk, gone)]
                  /\ procs' = procs
    /\ UNCHANGED <<arg, made, runner, loop>>

\* ---------------------------------------------------------- specifications
\* fold calls, concurrent and repeated, on two constructed runners
Init ==
    /\ \E args \in [Runners -> FoldArgs] : Constructed(args)
    /\ loop = "unset"

Next ==
    \E t \in Tasks :
        \/ \E r \in Runners : Call(t, r)
        \/ SpawnOk(t)
        \/ SpawnFail(t)
        \/ DrainOk(t)
        \/ DrainFail(t)
        \/ CommunicateReturn(t, FewReads)
        \/ WaitReturn(t)
        \/ ProcExit(t)

Spec == Init /\ [][Next]_vars

\* the same, with callers that abandon their calls
NextCancel == Next \/ \E t \in Tasks : Cancel(t)

SpecCancel == Init /\ [][NextCancel]_vars

\* the same as Spec, on machines with and without the executable
NextLaunch == Next \/ \E p \in Tasks : CommandNotFound(p)

SpecLaunch == Init /\ [][NextLaunch]_vars

\* one fold call on one runner, over every output of the subprocess
InitParse ==
    /\ Constructed([r \in Runners |-> ExampleArg])
    /\ loop = "unset"

NextParse ==
    \/ Call(1, 1)
    \/ SpawnOk(1)
    \/ SpawnFail(1)
    \/ DrainOk(1)
    \/ DrainFail(1)
    \/ CommunicateReturn(1, AllReads)
    \/ ProcExit(1)

SpecParse == InitParse /\ [][NextParse]_vars

\* the constructor, over every argument
InitCreate ==
    /\ arg = [r \in Runners |-> NoArg]
    /\ made = [r \in Runners |-> NoCall]
    /\ runner = [r \in Runners |-> NoRunner]
    /\ task = [t \in Tasks |-> IdleTask]
    /\ procs = [t \in Tasks |-> NoProc]
    /\ loop = "unset"

NextCreate == \E r \in Runners, a \in CtorArgs : arg[3 - r] = NoArg /\ Construct(r, a)

SpecCreate == InitCreate /\ [][NextCreate]_vars

\* two runners constructed side by side
PairArgs == {StrArg(s) : s \in SeqsUpTo({"A", "a", "u", "G"}, MaxSeqLen)}

NextPair == \E r \in Runners, a \in PairArgs : Construct(r, a)

SpecPair == InitCreate /\ [][NextPair]_vars

\* ------------------------------------------------------------------ claims
\* What the claims speak of, stated without the code's helpers.
OfNucleotides(a) ==
    a.type = "str" /\ a.chars # <<>> /\ Range(a.chars) \subseteq {"A", "U", "G", "C", "a", "u", "g", "c"}

UpperCaseOf(c) ==
    CASE c \in {"A", "a"} -> "A" [] c \in {"U", "u"} -> "U"
      [] c \in {"G", "g"} -> "G" [] c \in {"C", "c"} -> "C"

Done(t) == task[t].pc = "done"

\* a line that, trimmed, is made of '(' ')' '.' and nothing else
DotBracket(line) ==
    LET s == Strip(line) IN s # <<>> /\ \A i \in 1..Len(s) : s[i] \in {"(", ")", "."}

StructureLines(pieces) == {i \in 1..Len(pieces) : DotBracket(pieces[i])}

\* the lines of a text: its pieces, but for the empty piece after a last "\n"
LineCount(pieces) ==
    IF pieces[Len(pieces)] = <<>> THEN Len(pieces) - 1 ELSE Len(pieces)

\* the lines of a text from its first to its last line that is not blank
TrimmedLineCount(pieces) ==
    LET inked == {i \in 1..Len(pieces) : \E j \in 1..Len(pieces[i]) : pieces[i][j] # " "}
    IN  IF inked = {} THEN 0 ELSE Max(inked) - Min(inked) + 1

\* the line after the first structure line exists and a number is parsed from it
EnergyFollows(pieces) ==
    /\ StructureLines(pieces) # {}
    /\ Min(StructureLines(pieces)) < Len(pieces)
    /\ ParseEnergy(Strip(pieces[Min(StructureLines(pieces)) + 1])).ok

FirstStructureAndEnergy(pieces) ==
    LET i == Min(StructureLines(pieces))
    IN  Returned(Strip(pieces[i]), ParseEnergy(Strip(pieces[i + 1])).val)

\* the process of fold call t exited with status 0 and its stdout is text
ReadText(t) == Done(t) /\ task[t].rc = 0 /\ task[t].out.valid

\* C1: a constructor argument that is a non-empty string over A, U, G, C in
\* any mixture of case gives a runner whose sequence is the argument in upper
\* case (SpecCreate).
C1_UppercaseSequence ==
    \A r \in Runners :
        OfNucleotides(arg[r]) =>
            /\ made[r].exc = "none"
            /\ runner[r].live
            /\ runner[r].sequence = [i \in 1..Len(arg[r].chars) |-> UpperCaseOf(arg[r].chars[i])]

C1_MixedCaseConstructed ==
    \E r \in Runners :
        /\ arg[r] = StrArg(<<"a", "U">>)
        /\ made[r].exc = "none"
        /\ runner[r].sequence = <<"A", "U">>

\* C2: a constructor argument that is empty, not a string, or a string with a
\* character outside A, U, G, C, a, u, g, c makes the constructor raise the
\* invalid-sequence error, no runner exists, and no subprocess was started
\* (SpecCreate).
C2_InvalidRejected ==
    \A r \in Runners :
        (arg[r] # NoArg /\ ~OfNucleotides(arg[r])) =>
            /\ KindOf(made[r]) = "InvalidSequence"
            /\ ~runner[r].live
            /\ \A t \in Tasks : procs[t].status = "none" /\ task[t].spawns = 0

C2_SentinelRejected ==
    \E r \in Runners :
        /\ arg[r] = StrArg(<<"A", "@">>)
        /\ KindOf(made[r]) = "InvalidSequence"
        /\ ~runner[r].live

C4_NonZeroExit ==
    \A t \in Tasks :
        (Done(t) /\ task[t].rc \notin {0, -1}) =>
            /\ KindOf(task[t].outcome) = "ProcessError"
            /\ task[t].outcome.code = task[t].rc
            /\ task[t].err.valid =>
                  task[t].outcome.text =
                      IF task[t].err.text = "" THEN "Unknown error" ELSE task[t].err.text

\* a line made of '(' ')' '.' and nothing else, blanks included
SolelyDotBracket(line) ==
    line # <<>> /\ \A i \in 1..Len(line) : line[i] \in {"(", ")", "."}

StrategyA(e) == IF MFE \in Range(e) THEN MfePattern(e) ELSE Fails
StrategyB(e) == IF e # <<>> /\ e[1] = "(" /\ e[Len(e)] = ")" THEN Parenthesized(e) ELSE Fails
StrategyC(e) == FirstNumber(e)
FirstToYield(e) ==
    IF StrategyA(e).ok THEN StrategyA(e)
    ELSE IF StrategyB(e).ok THEN StrategyB(e)
    ELSE StrategyC(e)

\* C6: with a structure line found and a line that is not blank after it, the
\* energy is what the first of the strategies (a), (b), (c) to yield a number
\* yields from that line, and fold raises the energy-parse error exactly when
\* none of them yields one (SpecParse).
C6_FirstStrategyThatYields ==
    \A t \in Tasks :
        LET pieces == task[t].out.text
            i == Min(StructureLines(pieces))
            e == Strip(pieces[i + 1])
        IN  (ReadText(t) /\ TrimmedLineCount(pieces) >= 3 /\ StructureLines(pieces) # {}
                /\ Min(StructureLines(pieces)) < Len(pieces)
                /\ Strip(pieces[Min(StructureLines(pieces)) + 1]) # <<>>)
            => IF FirstToYield(e).ok
                 THEN task[t].outcome = Returned(Strip(pieces[i]), FirstToYield(e).val)
                 ELSE KindOf(task[t].outcome) = "EnergyParseError"

\* C7: once a fold call has returned or raised, the subprocess it started is
\* not running (Spec).
C7_NoProcessLeftRunning ==
    \A t \in Tasks : Done(t) => procs[t].status # "running"

\* C8: every fold call that has ended has called for exactly one subprocess,
\* and a subprocess it started runs the fixed command (Spec).
C8_OneSubprocessPerFold ==
    \A t \in Tasks :
        Done(t) => /\ task[t].spawns = 1
                   /\ procs[t].status # "none" => procs[t].cmd = "RNAFold --noPS"

\* the bytes of "<SEQUENCE>\n@\n"
RequestBytes(seq) == [i \in 1..Len(seq) |-> Ord(seq[i])] \o <<10, 64, 10>>

\* C9: a fold call that reads the output of a subprocess has before that
\* started the subprocess, written "<SEQUENCE>\n@\n" to its stdin and closed
\* its stdin, in this order and nothing else; a subprocess never has anything
\* else on its stdin (Spec).
C9_StartWriteCloseRead ==
    /\ \A t \in Tasks :
          (\E i \in 1..Len(task[t].trace) : task[t].trace[i].op = "read") =>
              task[t].trace = <<Event("spawn", t, <<>>),
                                Event("write", t, RequestBytes(runner[task[t].r].sequence)),
                                Event("close", t, <<>>),
                                Event("read", t, <<>>)>>
    /\ \A p \in Tasks :
          procs[p].status # "none" =>
              \E r \in Runners : procs[p].written = RequestBytes(runner[r].sequence)

\* what fold call t met: whether it called for a subprocess, how the spawn,
\* the pipe operations and the read went, and the exit status and output read
Behaviour(t) ==
    [spawns |-> task[t].spawns,
     ops |-> [i \in 1..Len(task[t].trace) |-> task[t].trace[i].op],
     rc |-> task[t].rc, out |-> task[t].out, err |-> task[t].err]

\* C10: a blocking and a non-blocking fold call on runners of the same
\* sequence that met the same subprocess behaviour ended alike: with the
\* same (structure, energy), or with an error of the same kind (Spec).
C10_BlockingAgrees ==
    \A t, u \in Tasks :
        (/\ Done(t) /\ Done(u)
         /\ task[t].mode = "async" /\ task[u].mode = "sync"
         /\ runner[task[t].r].sequence = runner[task[u].r].sequence
         /\ Behaviour(t) = Behaviour(u))
        => /\ KindOf(task[t].outcome) = KindOf(task[u].outcome)
           /\ task[t].outcome.structure = task[u].outcome.structure
           /\ task[t].outcome.mfe = task[u].outcome.mfe

C10_BothFolded ==
    \E t, u \in Tasks :
        /\ Done(t) /\ Done(u)
        /\ task[t].mode = "async" /\ task[u].mode = "sync"
        /\ runner[task[t].r].sequence = runner[task[u].r].sequence
        /\ Behaviour(t) = Behaviour(u)
        /\ KindOf(task[u].outcome) = "Result"
        /\ task[u].outcome.structure = LineStructure

\* C11: two runners of the same sequence and command compare equal and have
\* equal hashes; two runners of different sequences do not compare equal
\* (SpecPair).
C11_EqualAndHashAlike ==
    \A r, s \in Runners :
        (r # s /\ runner[r].live /\ runner[s].live) =>
            IF runner[r].sequence = runner[s].sequence /\ runner[r].cmd = runner[s].cmd
              THEN EqualObjects(r, s) /\ HashOf(runner[r]) = HashOf(runner[s])
              ELSE ~EqualObjects(r, s)

\* the subprocesses started for runner r that are running
RunningFor(r) == {p \in Tasks : procs[p].status = "running" /\ task[p].r = r}

\* C12: at every moment of every interleaving, each fold call has written to,
\* closed, read and cleaned up no subprocess but the one it started, and no
\* runner has more than one subprocess running (Spec).
C12_OwnSubprocessOnly ==
    /\ \A t \in Tasks :
          /\ task[t].proc \in {None, t}
          /\ \A i \in 1..Len(task[t].trace) :
                task[t].trace[i].op \in {"write", "close", "read", "read-refused"}
                    => task[t].trace[i].p = t
    /\ \A r \in Runners : Cardinality(RunningFor(r)) <= 1

\* C13: a fold call that was abandoned after its subprocess was started has
\* ended with that subprocess terminated and waited on: it is not running
\* (SpecCancel).
C13_AbandonedCleansUp ==
    \A t \in Tasks :
        (Done(t) /\ task[t].outcome.exc = "CancelledError" /\ procs[t].status # "none")
            => procs[t].status = "exited"

\* C14: once a fold call has returned or raised, its runner does not hold the
\* handle of the subprocess the call started (Spec).
C14_NoHandleAfterFold ==
    \A t \in Tasks :
        (Done(t) /\ procs[t].status # "none") => runner[task[t].r].proc # t

\* C15: whatever a constructor or a fold call, blocking or not, raises is an
\* RNAFoldError of one of the five kinds (Spec).
C15_OneErrorFamily ==
    /\ \A r \in Runners :
          made[r].exc \in {"pending", "none", "RNAFoldError"}
    /\ \A t \in Tasks :
          Done(t) => \/ KindOf(task[t].outcome) = "Result"
                     \/ /\ task[t].outcome.exc = "RNAFoldError"
                        /\ KindOf(task[t].outcome) \in
                              {"InvalidSequence", "ProcessStartFailure", "ProcessError",
                               "MalformedOutput", "EnergyParseError"}

\* the spawn of fold call t failed in the operating system
SpawnFailed(t) == \E i \in 1..Len(task[t].trace) : task[t].trace[i].op = "spawn-failed"

\* C16: a fold call whose command could not be launched, the executable
\* missing or the spawn failing in the operating system, raises the
\* process-start error, and its runner holds no subprocess of the call
\* (SpecLaunch).
C16_LaunchFailure ==
    \A t \in Tasks :
        (Done(t) /\ (SpawnFailed(t) \/ procs[t].missing)) =>
            /\ KindOf(task[t].outcome) = "ProcessStartFailure"
            /\ runner[task[t].r].proc # t

\* C17: the structure of every result fold returns is not empty, has no
\* blank at either end, and is made of '(' ')' '.' alone, whatever the
\* subprocess wrote (SpecParse).
C17_StructureWellFormed ==
    \A t \in Tasks :
        (Done(t) /\ KindOf(task[t].outcome) = "Result") =>
            LET st == task[t].outcome.structure
            IN  /\ st # <<>>
                /\ st[1] \notin Space /\ st[Len(st)] \notin Space
                /\ \A i \in 1..Len(st) : st[i] \in {"(", ")", "."}

C17_PaddedLineTrimmed ==
    \E t \in Tasks :
        /\ Done(t)
        /\ task[t].out = OutBytes(<<LineEcho, LinePadded, LineParen>>)
        /\ task[t].outcome = Returned(<<"(", ".", ")">>, 0 - 420)

====
